---- MODULE Spec2Model ----
(***************************************************************************)
(* Model of tools/gui_vm_manager.py: the VM manager's configuration        *)
(* fields, the validation that turns them into a VMConfig, the VMX         *)
(* descriptor parser, and the lifecycle of the child VM process            *)
(* (start_vm, stop_vm, the monitor thread and the finalize timer).         *)
(*                                                                         *)
(* Strings the program inspects (field contents, descriptor lines) are     *)
(* sequences of one-character strings, so that strip, lower, split and     *)
(* int are computed.  Strings the program only shows (status texts,        *)
(* dialog titles) are TLA+ strings.                                        *)
(***************************************************************************)
EXTENDS Integers, Sequences, FiniteSets, TLC

(* Bounds of the model. *)
MaxChildren == 2
MaxStops == 2
MaxLines == 3

VARIABLES
  binary_var,    \* self.binary_var, the "BEMU Binary" entry
  disk_var,      \* self.disk_var, the "Disk Image" entry
  memory_var,    \* self.memory_var, the "Memory (MB)" spinbox
  cpus_var,      \* self.cpus_var, the "vCPUs" spinbox
  cpu_model_var, \* self.cpu_model_var
  machine_var,   \* self.machine_var
  bios_var,      \* self.bios_var
  vm_process,    \* self._vm_process: 0 for None, else the child it wraps
  stop_event,    \* self._stop_event.is_set()
  status_var,    \* self.status_var
  proc,          \* the operating system's view of each child
  signals,       \* the signals sent to each child, in order
  monitors,      \* the _monitor_process thread started with each child, while it runs
  timers,        \* pending self.after(100, self._finalize_stop) callbacks
  dialog,        \* the message box shown by the latest handler
  config,        \* the latest result of _build_config
  vmx_file,      \* the descriptor file on disk: whether it can be read, and its lines
  can_interrupt, \* the host: whether send_signal(SIGINT) succeeds on a child
  vmx_data,      \* the latest result of _parse_vmx_file
  explicit,      \* history: the value the user last set each field to
  edited,        \* history: the fields the user has set since the latest descriptor load
  environ,       \* the host: os.environ.get("SEABIOS_DIR", "") when the module is loaded
  bios_files,    \* the host: the paths at which a firmware file is found
  default_bios,  \* the latest result of _find_default_bios
  command        \* the latest result of VMConfig.build_command

fields == <<binary_var, disk_var, memory_var, cpus_var, cpu_model_var, machine_var, bios_var>>
lifecycle == <<vm_process, stop_event, status_var, proc, signals, monitors, timers>>
history == <<explicit, edited>>
host == <<can_interrupt, environ, bios_files>>
results == <<default_bios, command>>
vars == <<fields, lifecycle, dialog, config, vmx_file, host, vmx_data, history, results>>

None == 0
Children == 1..MaxChildren
NoDialog == [title |-> "", message |-> ""]
NoConfig == [none |-> TRUE]
Unreadable == [readable |-> FALSE, lines |-> <<>>]
File(lines) == [readable |-> TRUE, lines |-> lines]

(***************************************************************************)
(* Strings as sequences of characters.                                     *)
(***************************************************************************)
Uppercase == <<"A","B","C","D","E","F","G","H","I","J","K","L","M",
               "N","O","P","Q","R","S","T","U","V","W","X","Y","Z">>
Lowercase == <<"a","b","c","d","e","f","g","h","i","j","k","l","m",
               "n","o","p","q","r","s","t","u","v","w","x","y","z">>
DigitChars == <<"0","1","2","3","4","5","6","7","8","9">>
Whitespace == {" ", "\t"}

IsDigit(ch) == \E d \in 1..10 : DigitChars[d] = ch
DigitVal(ch) == (CHOOSE d \in 1..10 : DigitChars[d] = ch) - 1

(* str.lower() *)
LowerChar(ch) ==
  IF \E i \in 1..26 : Uppercase[i] = ch
  THEN Lowercase[CHOOSE i \in 1..26 : Uppercase[i] = ch]
  ELSE ch
Lower(s) == [i \in 1..Len(s) |-> LowerChar(s[i])]

(* str.strip(): leading and trailing whitespace removed *)
RECURSIVE LStrip(_)
LStrip(s) == IF s # <<>> /\ Head(s) \in Whitespace THEN LStrip(Tail(s)) ELSE s
RECURSIVE RStrip(_)
RStrip(s) ==
  IF s # <<>> /\ s[Len(s)] \in Whitespace THEN RStrip(SubSeq(s, 1, Len(s) - 1)) ELSE s
Strip(s) == RStrip(LStrip(s))

(* str.strip('"'): leading and trailing double quotes removed *)
RECURSIVE LStripQuote(_)
LStripQuote(s) == IF s # <<>> /\ Head(s) = "\"" THEN LStripQuote(Tail(s)) ELSE s
RECURSIVE RStripQuote(_)
RStripQuote(s) ==
  IF s # <<>> /\ s[Len(s)] = "\"" THEN RStripQuote(SubSeq(s, 1, Len(s) - 1)) ELSE s
StripQuote(s) == RStripQuote(LStripQuote(s))

StartsWith(s, prefix) ==
  Len(s) >= Len(prefix) /\ SubSeq(s, 1, Len(prefix)) = prefix
EndsWith(s, suffix) ==
  Len(s) >= Len(suffix) /\ SubSeq(s, Len(s) - Len(suffix) + 1, Len(s)) = suffix
Contains(s, ch) == \E i \in 1..Len(s) : s[i] = ch
(* the index of the first occurrence of ch in s, which contains it *)
IndexOf(s, ch) == CHOOSE i \in 1..Len(s) : s[i] = ch /\ \A j \in 1..(i - 1) : s[j] # ch

(* the value of a string of decimal digits *)
RECURSIVE NatOfDigits(_)
NatOfDigits(s) ==
  IF s = <<>> THEN 0
  ELSE 10 * NatOfDigits(SubSeq(s, 1, Len(s) - 1)) + DigitVal(s[Len(s)])
(* str(n) of an integer *)
RECURSIVE StrOfNat(_)
StrOfNat(n) ==
  IF n < 10 THEN <<DigitChars[n + 1]>>
  ELSE StrOfNat(n \div 10) \o <<DigitChars[(n % 10) + 1]>>
StrOfInt(n) == IF n < 0 THEN <<"-">> \o StrOfNat(0 - n) ELSE StrOfNat(n)

Failed == [ok |-> FALSE, val |-> 0]
Parsed(n) == [ok |-> TRUE, val |-> n]

(* Python's int(str): surrounding whitespace, an optional sign, decimal digits. *)
PyInt(s) ==
  LET t == Strip(s)
      signed == t # <<>> /\ Head(t) \in {"-", "+"}
      digits == IF signed THEN Tail(t) ELSE t
  IN  IF digits # <<>> /\ \A i \in 1..Len(digits) : IsDigit(digits[i])
      THEN Parsed(IF signed /\ Head(t) = "-" THEN 0 - NatOfDigits(digits)
                  ELSE NatOfDigits(digits))
      ELSE Failed

(* tkinter.IntVar.get(): Tcl's getint of the variable's string, and when that  *)
(* fails int(getdouble(...)), which truncates a decimal fraction; TclError      *)
(* (here Failed) when the string is no number.                                 *)
IntVarGet(s) ==
  LET t == Strip(s)
      whole == IF Contains(t, ".") THEN SubSeq(t, 1, IndexOf(t, ".") - 1) ELSE t
      frac == IF Contains(t, ".") THEN SubSeq(t, IndexOf(t, ".") + 1, Len(t)) ELSE <<>>
  IN  IF PyInt(t).ok THEN PyInt(t)
      ELSE IF Contains(t, ".") /\ PyInt(whole).ok
              /\ \A i \in 1..Len(frac) : IsDigit(frac[i])
           THEN PyInt(whole)
           ELSE Failed

(***************************************************************************)
(* The host: the files that exist, the commands on the search path.        *)
(***************************************************************************)
DEFAULT_MEMORY == 2048
DEFAULT_CPU_COUNT == 2
DEFAULT_CPU_NAME == <<"v","4","0","0","4">>
DEFAULT_MACHINE == <<"q","3","5">>

Home == <<"/","h">>
BinBlank == <<" ">>
BinBare == <<"q","e","m","u">>
BinBareMissing == <<"n","o","q">>
BinPath == <<"/","q","e","m","u">>
BinPathMissing == <<"/","n","o","q">>
DiskImg == <<"/","d",".","i","m","g">>
DiskQcow == <<"/","d",".","q","c","o","w","2">>
DiskMissing == <<"/","n",".","i","m","g">>
DiskUpper == <<"/","d",".","I","M","G">>
BiosBin == <<"/","b",".","b","i","n">>
BiosMissing == <<"/","n",".","b","i","n">>
VmxPath == <<"/","v",".","v","m","x">>

ExistingFiles == {BinPath, DiskImg, DiskQcow, DiskUpper, BiosBin}
SearchPath == {BinBare}

(* an existence test that always passes *)
M_Exists(path) == TRUE

(* Path.exists() *)
Exists(path) == path \in ExistingFiles \/ (path = VmxPath /\ vmx_file.readable)

(* Path.expanduser(): a leading "~" becomes the home directory *)
Expanduser(path) ==
  IF path = <<"~">> \/ StartsWith(path, <<"~","/">>) THEN Home \o Tail(path) ELSE path

(* os.sep in binary_value; os.altsep is None on POSIX *)
HasPathSep(s) == Contains(s, "/")

(***************************************************************************)
(* Paths.                                                                  *)
(***************************************************************************)
(* the index of the last occurrence of ch in s, 0 when there is none *)
LastIndexOf(s, ch) ==
  IF Contains(s, ch)
  THEN CHOOSE i \in 1..Len(s) : s[i] = ch /\ \A j \in (i + 1)..Len(s) : s[j] # ch
  ELSE 0

(* Path.is_absolute() *)
IsAbsolute(path) == path # <<>> /\ Head(path) = "/"
(* Path.name: the final component *)
Name(path) == SubSeq(path, LastIndexOf(path, "/") + 1, Len(path))
(* Path.parent, with its trailing separator *)
Parent(path) == SubSeq(path, 1, LastIndexOf(path, "/"))
(* Path.suffix: the final component's last dot and what follows, unless the *)
(* dot starts or ends the component                                         *)
Suffix(path) ==
  LET name == Name(path)
      dot == LastIndexOf(name, ".")
  IN  IF 1 < dot /\ dot < Len(name) THEN SubSeq(name, dot, Len(name)) ELSE <<>>
(* (vmx_path.parent / candidate).resolve() *)
Resolve(vmx_path, candidate) == Parent(vmx_path) \o candidate

(***************************************************************************)
(* _parse_vmx_file                                                         *)
(***************************************************************************)
FileNameSuffix == <<".","f","i","l","e","N","a","m","e">>
DiskSuffixes ==
  { <<".","v","m","d","k">>, <<".","q","c","o","w","2">>,
    <<".","i","m","g">>, <<".","r","a","w">> }
KeyMemsize == <<"m","e","m","s","i","z","e">>
KeyNumvcpus == <<"n","u","m","v","c","p","u","s">>

(* a dict with string keys: d[key] = value *)
Put(d, key, value) == [k \in DOMAIN d \cup {key} |-> IF k = key THEN value ELSE d[k]]

(* the loop over the file's lines with a matching disk line recorded and   *)
(* the scan carried on, so that a later match replaces an earlier one      *)
RECURSIVE M_ParseLines(_, _, _)
M_ParseLines(vmx_path, lines, data) ==
  IF lines = <<>> THEN data
  ELSE
    LET line == Strip(Head(lines))
        more == Tail(lines)
    IN  IF line = <<>> \/ Head(line) = "#" THEN M_ParseLines(vmx_path, more, data)
        ELSE IF ~Contains(line, "=") THEN M_ParseLines(vmx_path, more, data)
        ELSE
          LET eq == IndexOf(line, "=")
              key == Strip(SubSeq(line, 1, eq - 1))
              value == StripQuote(Strip(SubSeq(line, eq + 1, Len(line))))
              lowered_key == Lower(key)
              candidate == IF IsAbsolute(value) THEN value ELSE Resolve(vmx_path, value)
          IN  IF lowered_key = KeyMemsize
              THEN M_ParseLines(vmx_path, more, Put(data, "memsize", value))
              ELSE IF lowered_key = KeyNumvcpus
              THEN M_ParseLines(vmx_path, more, Put(data, "numvcpus", value))
              ELSE IF EndsWith(key, FileNameSuffix) /\ value # <<>>
                      /\ Lower(Suffix(candidate)) \in DiskSuffixes
                      /\ Exists(candidate)
              THEN M_ParseLines(vmx_path, more, Put(data, "disk", candidate))
              ELSE M_ParseLines(vmx_path, more, data)

(* the loop over the file's lines: data is the dict so far.  A line that   *)
(* names an existing disk image ends the loop.                              *)
RECURSIVE ParseLines(_, _, _)
ParseLines(vmx_path, lines, data) ==
  IF lines = <<>> THEN data
  ELSE
    LET line == Strip(Head(lines))
        more == Tail(lines)
    IN  IF line = <<>> \/ Head(line) = "#" THEN ParseLines(vmx_path, more, data)
        ELSE IF ~Contains(line, "=") THEN ParseLines(vmx_path, more, data)
        ELSE
          LET eq == IndexOf(line, "=")
              key == Strip(SubSeq(line, 1, eq - 1))
              value == StripQuote(Strip(SubSeq(line, eq + 1, Len(line))))
              lowered_key == Lower(key)
              candidate == IF IsAbsolute(value) THEN value ELSE Resolve(vmx_path, value)
          IN  IF lowered_key = KeyMemsize
              THEN ParseLines(vmx_path, more, Put(data, "memsize", value))
              ELSE IF lowered_key = KeyNumvcpus
              THEN ParseLines(vmx_path, more, Put(data, "numvcpus", value))
              ELSE IF EndsWith(key, FileNameSuffix) /\ value # <<>>
                      /\ Lower(Suffix(candidate)) \in DiskSuffixes
                      /\ Exists(candidate)
              THEN Put(data, "disk", candidate)
              ELSE ParseLines(vmx_path, more, data)

(* _parse_vmx_file: a file that cannot be opened gives the empty dict *)
ParseVmxFile(vmx_path) ==
  IF vmx_path = VmxPath /\ vmx_file.readable
  THEN ParseLines(vmx_path, vmx_file.lines, <<>>)
  ELSE <<>>

(***************************************************************************)
(* VMManager._build_config                                                 *)
(***************************************************************************)
Invalid(title, message) ==
  [ok |-> FALSE, dialog |-> [title |-> title, message |-> message], config |-> NoConfig]

(* what the tk variables hold *)
FieldValues ==
  [binary |-> binary_var, disk |-> disk_var, memory |-> memory_var, cpus |-> cpus_var,
   cpu_model |-> cpu_model_var, machine |-> machine_var, bios |-> bios_var]

(* _build_config with the executable tests before the number tests *)
M_BuildConfigOf(f) ==
  LET memory_mb == IntVarGet(f.memory)
      cpus == IntVarGet(f.cpus)
      binary_value == Strip(f.binary)
      binary == Expanduser(binary_value)
      disk == IF f.disk # <<>> THEN Expanduser(f.disk) ELSE <<>>
      bios == IF f.bios # <<>> THEN Expanduser(f.bios) ELSE <<>>
  IN  IF binary_value = <<>>
      THEN Invalid("Invalid Configuration", "Please choose a BEMU binary")
      ELSE IF HasPathSep(binary_value) /\ ~Exists(binary)
      THEN Invalid("Invalid Configuration", "BEMU binary does not exist")
      ELSE IF ~memory_mb.ok \/ ~cpus.ok
      THEN Invalid("Invalid Configuration", "Memory and CPU counts must be integers")
      ELSE IF f.disk # <<>> /\ ~Exists(disk)
      THEN Invalid("Invalid Disk", "Disk image does not exist")
      ELSE IF f.bios # <<>> /\ ~Exists(bios)
      THEN Invalid("Invalid BIOS", "SeaBIOS image was not found")
      ELSE [ok |-> TRUE, dialog |-> NoDialog,
            config |-> [binary |-> binary,
                        disk_image |-> disk,
                        memory_mb |-> memory_mb.val,
                        cpu_count |-> cpus.val,
                        cpu_model |-> IF Strip(f.cpu_model) # <<>>
                                      THEN Strip(f.cpu_model) ELSE DEFAULT_CPU_NAME,
                        bios |-> bios,
                        machine |-> IF f.machine # <<>> THEN f.machine ELSE DEFAULT_MACHINE]]

(* _build_config, reading the fields f *)
BuildConfigOf(f) ==
  LET memory_mb == IntVarGet(f.memory)
      cpus == IntVarGet(f.cpus)
      binary_value == Strip(f.binary)
      binary == Expanduser(binary_value)
      disk == IF f.disk # <<>> THEN Expanduser(f.disk) ELSE <<>>
      bios == IF f.bios # <<>> THEN Expanduser(f.bios) ELSE <<>>
  IN  IF ~memory_mb.ok \/ ~cpus.ok
      THEN Invalid("Invalid Configuration", "Memory and CPU counts must be integers")
      ELSE IF binary_value = <<>>
      THEN Invalid("Invalid Configuration", "Please choose a BEMU binary")
      ELSE IF HasPathSep(binary_value) /\ ~Exists(binary)
      THEN Invalid("Invalid Configuration", "BEMU binary does not exist")
      ELSE IF f.disk # <<>> /\ ~Exists(disk)
      THEN Invalid("Invalid Disk", "Disk image does not exist")
      ELSE IF f.bios # <<>> /\ ~Exists(bios)
      THEN Invalid("Invalid BIOS", "SeaBIOS image was not found")
      ELSE [ok |-> TRUE, dialog |-> NoDialog,
            config |-> [binary |-> binary,
                        disk_image |-> disk,
                        memory_mb |-> memory_mb.val,
                        cpu_count |-> cpus.val,
                        cpu_model |-> IF Strip(f.cpu_model) # <<>>
                                      THEN Strip(f.cpu_model) ELSE DEFAULT_CPU_NAME,
                        bios |-> bios,
                        machine |-> IF f.machine # <<>> THEN f.machine ELSE DEFAULT_MACHINE]]

(* _build_config *)
BuildConfig == BuildConfigOf(FieldValues)

(***************************************************************************)
(* The lifecycle of the child process.                                     *)
(***************************************************************************)
(* Popen.poll(): None while the child runs, its return code (here 1) after *)
Poll(c) == IF proc[c] = "alive" THEN None ELSE 1

(* the guard of start_vm with the poll test inverted *)
M_StartRejected == vm_process # None /\ Poll(vm_process) # None

(* the guard of start_vm: a child is held and has not exited *)
StartRejected == vm_process # None /\ Poll(vm_process) = None

(* the guard of stop_vm without the poll test *)
M_NothingToStop == vm_process = None

(* the guard of stop_vm: no child is held, or the held child has exited *)
NothingToStop == vm_process = None \/ Poll(vm_process) # None

Spawned == {c \in Children : proc[c] # "unborn"}
Alive == {c \in Children : proc[c] = "alive"}

(* subprocess.Popen(command): what the host can answer for this executable. *)
(* A command name that is not on the search path is not found; any other     *)
(* spawn succeeds or fails with some other error (fork or exec refused).     *)
PopenOutcomes(binary) ==
  IF ~HasPathSep(binary) /\ binary \notin SearchPath
  THEN {"FileNotFoundError"}
  ELSE {"ok", "OSError"}

NoMonitor == [pc |-> "none", target |-> None]

(* start_vm after a successful Popen: the handle, the stop event, the   *)
(* status and a new monitor thread                                       *)
Launched(c) ==
  /\ proc' = [proc EXCEPT ![c] = "alive"]
  /\ vm_process' = c
  /\ stop_event' = FALSE
  /\ status_var' = "VM running"
  /\ monitors' = [monitors EXCEPT ![c] = [pc |-> "entry", target |-> None]]
  /\ dialog' = NoDialog
  /\ UNCHANGED <<signals, timers>>

(* except clauses that show the dialog and leave the status as it was set *)
(* before the try                                                         *)
M_LaunchFailed(outcome) ==
  /\ status_var' = "Starting VM..."
  /\ dialog' = [title |-> "Launch Failed", message |-> "Failed to launch VM"]
  /\ UNCHANGED <<vm_process, stop_event, proc, signals, monitors, timers>>

(* start_vm's two except clauses *)
LaunchFailed(outcome) ==
  /\ status_var' = "Launch failed"
  /\ dialog' = [title |-> "Launch Failed",
                message |-> IF outcome = "FileNotFoundError"
                            THEN "Could not find executable"
                            ELSE "Failed to launch VM"]
  /\ UNCHANGED <<vm_process, stop_event, proc, signals, monitors, timers>>

(* start_vm, given what _build_config returns when it is called *)
StartVmWith(built) ==
  IF StartRejected
  THEN /\ dialog' = [title |-> "VM Running", message |-> "The VM is already running"]
       /\ UNCHANGED <<lifecycle>>
  ELSE IF ~built.ok
       THEN /\ dialog' = built.dialog
            /\ UNCHANGED <<lifecycle>>
       ELSE \E outcome \in PopenOutcomes(built.config.binary) :
              IF outcome = "ok"
              THEN /\ Cardinality(Spawned) < MaxChildren
                   /\ Launched(Cardinality(Spawned) + 1)
              ELSE LaunchFailed(outcome)

(* start_vm, the whole handler *)
StartVm == StartVmWith(BuildConfig)

(* the stop requests accepted so far: each sent one signal *)
RECURSIVE SumLen(_, _)
SumLen(f, S) ==
  IF S = {} THEN 0
  ELSE LET c == CHOOSE x \in S : TRUE IN Len(f[c]) + SumLen(f, S \ {c})
StopsAccepted == SumLen(signals, Children)

(* stop_vm, the whole handler.  send_signal raises where the host cannot   *)
(* send the signal; terminate() is then called instead.                    *)
StopVm ==
  IF NothingToStop
  THEN /\ status_var' = "No VM running"
       /\ dialog' = NoDialog
       /\ UNCHANGED <<vm_process, stop_event, proc, signals, monitors, timers>>
  ELSE /\ StopsAccepted < MaxStops
       /\ status_var' = "Stopping VM..."
       /\ stop_event' = TRUE
       /\ signals' = [signals EXCEPT ![vm_process] =
                         Append(@, IF can_interrupt THEN "SIGINT" ELSE "SIGTERM")]
       /\ timers' = timers + 1
       /\ dialog' = NoDialog
       /\ UNCHANGED <<vm_process, proc, monitors>>

(* the child exits: on its own, or in answer to a signal *)
ChildExit(c) ==
  /\ proc[c] = "alive"
  /\ proc' = [proc EXCEPT ![c] = "exited"]
  /\ UNCHANGED <<vm_process, stop_event, status_var, signals, monitors, timers, dialog>>

(* _monitor_process up to the wait: the thread reads self._vm_process when  *)
(* it is scheduled, and waits on the child it finds there                   *)
MonitorBind(t) ==
  /\ monitors[t].pc = "entry"
  /\ monitors' = [monitors EXCEPT ![t] =
                    IF vm_process = None THEN NoMonitor
                    ELSE [pc |-> "waiting", target |-> vm_process]]
  /\ UNCHANGED <<vm_process, stop_event, status_var, proc, signals, timers, dialog>>

(* _monitor_process after the wait: the child has exited, the thread reads *)
(* the stop event and publishes the status                                  *)
MonitorReport(t) ==
  /\ monitors[t].pc = "waiting"
  /\ proc[monitors[t].target] = "exited"
  /\ status_var' = IF ~stop_event THEN "VM exited" ELSE "VM stopped"
  /\ monitors' = [monitors EXCEPT ![t] = NoMonitor]
  /\ UNCHANGED <<vm_process, stop_event, proc, signals, timers, dialog>>

(* _finalize_stop, run by a pending timer *)
FinalizeStop ==
  /\ timers > 0
  /\ IF vm_process # None /\ Poll(vm_process) = None
     THEN UNCHANGED <<lifecycle, dialog>>
     ELSE /\ timers' = timers - 1
          /\ status_var' = "VM stopped"
          /\ UNCHANGED <<vm_process, stop_event, proc, signals, monitors, dialog>>

(***************************************************************************)
(* The user fills in the form.                                             *)
(***************************************************************************)
Str2 == <<"2">>
StrX == <<"x">>
Form(b, d, m, c, f) ==
  [binary |-> b, disk |-> d, memory |-> m, cpus |-> c,
   cpu_model |-> DEFAULT_CPU_NAME, machine |-> DEFAULT_MACHINE, bios |-> f]

(* the forms tried against the lifecycle: one that launches, one whose      *)
(* command is not found, and the ways a form can fail validation            *)
Forms ==
  { Form(BinBare, <<>>, StrOfInt(DEFAULT_MEMORY), StrOfInt(DEFAULT_CPU_COUNT), <<>>),
    Form(BinBareMissing, <<>>, Str2, Str2, <<>>),
    Form(BinBlank, <<>>, Str2, Str2, <<>>),
    Form(BinPathMissing, <<>>, Str2, Str2, <<>>),
    Form(BinBare, <<>>, StrX, Str2, <<>>),
    Form(BinBare, <<>>, Str2, StrX, <<>>),
    Form(BinBare, DiskMissing, Str2, Str2, <<>>),
    Form(BinBare, <<>>, Str2, Str2, BiosMissing) }

EditForm(form) ==
  /\ binary_var' = form.binary
  /\ disk_var' = form.disk
  /\ memory_var' = form.memory
  /\ cpus_var' = form.cpus
  /\ bios_var' = form.bios
  /\ cpu_model_var' = form.cpu_model
  /\ machine_var' = form.machine

(* __init__, _create_widgets and _populate_defaults *)
InitFields ==
  /\ binary_var = BinBare
  /\ disk_var = <<>>
  /\ memory_var = StrOfInt(DEFAULT_MEMORY)
  /\ cpus_var = StrOfInt(DEFAULT_CPU_COUNT)
  /\ cpu_model_var = DEFAULT_CPU_NAME
  /\ machine_var = DEFAULT_MACHINE
  /\ bios_var = <<>>

InitLifecycle ==
  /\ vm_process = None
  /\ stop_event = FALSE
  /\ status_var = "Ready"
  /\ proc = [c \in Children |-> "unborn"]
  /\ signals = [c \in Children |-> <<>>]
  /\ monitors = [c \in Children |-> NoMonitor]
  /\ timers = 0
  /\ dialog = NoDialog

FieldNames == {"memory", "cpus", "disk"}
Unset == [set |-> FALSE, value |-> <<>>]
NotParsed == [done |-> FALSE, data |-> <<>>]

InitHistory ==
  /\ explicit = [f \in FieldNames |-> Unset]
  /\ edited = {}

NotSearched == [done |-> FALSE, path |-> <<>>]
NoCommand == <<>>

(* a host on which no firmware file is found anywhere *)
InitLocator ==
  /\ environ = <<>>
  /\ bios_files = {}
  /\ default_bios = NotSearched
  /\ command = NoCommand

InitRest ==
  /\ config = NoConfig
  /\ vmx_file = Unreadable
  /\ can_interrupt = TRUE
  /\ vmx_data = NotParsed
  /\ InitHistory
  /\ InitLocator

Init ==
  /\ InitFields /\ InitLifecycle /\ InitHistory
  /\ config = NoConfig
  /\ vmx_file = Unreadable
  /\ vmx_data = NotParsed
  /\ can_interrupt \in BOOLEAN
  /\ InitLocator

rest == <<config, vmx_file, host, vmx_data, history, results>>

(* what _build_config makes of each of the forms *)
Built == [form \in Forms |-> BuildConfigOf(form)]

(* the user fills in the form and presses Start VM: start_vm runs on the  *)
(* fields as edited.  Nothing but start_vm reads the fields, so an edit is *)
(* taken together with the start that follows it.                          *)
SubmitForm(form) ==
  /\ EditForm(form)
  /\ UNCHANGED rest
  /\ StartVmWith(Built[form])
Submit == \E form \in Forms : SubmitForm(form)
Start == StartVm /\ UNCHANGED <<fields, rest>>
Stop == StopVm /\ UNCHANGED <<fields, rest>>
Exit == \E c \in Children : ChildExit(c) /\ UNCHANGED <<fields, rest>>
Bind == \E t \in Children : MonitorBind(t) /\ UNCHANGED <<fields, rest>>
Report == \E t \in Children : MonitorReport(t) /\ UNCHANGED <<fields, rest>>
Finalize == FinalizeStop /\ UNCHANGED <<fields, rest>>

Next == Submit \/ Stop \/ Exit \/ Bind \/ Report \/ Finalize

Spec == Init /\ [][Next]_vars

(***************************************************************************)
(* Loading a descriptor into the form.                                     *)
(***************************************************************************)
VmxSuffix == <<".","v","m","x">>

(* a load that fills only the fields the user has not set *)
M_ApplyVmxConfig(vmx_path) ==
  LET data == ParseVmxFile(vmx_path)
      has_disk == "disk" \in DOMAIN data
      has_memsize == "memsize" \in DOMAIN data
      has_numvcpus == "numvcpus" \in DOMAIN data
  IN  /\ disk_var' = IF explicit["disk"].set THEN disk_var
                     ELSE IF has_disk THEN data["disk"] ELSE vmx_path
      /\ memory_var' = IF ~explicit["memory"].set /\ has_memsize /\ PyInt(data["memsize"]).ok
                       THEN StrOfInt(PyInt(data["memsize"]).val) ELSE memory_var
      /\ cpus_var' = IF ~explicit["cpus"].set /\ has_numvcpus /\ PyInt(data["numvcpus"]).ok
                     THEN StrOfInt(PyInt(data["numvcpus"]).val) ELSE cpus_var
      /\ status_var' = IF has_disk \/ has_memsize \/ has_numvcpus
                       THEN "Loaded VMX (details)" ELSE "Loaded VMX configuration"

(* _apply_vmx_config.  The status names what was loaded; its text is kept  *)
(* only as far as whether any detail was shown.                            *)
ApplyVmxConfig(vmx_path) ==
  LET data == ParseVmxFile(vmx_path)
      has_disk == "disk" \in DOMAIN data
      has_memsize == "memsize" \in DOMAIN data
      has_numvcpus == "numvcpus" \in DOMAIN data
  IN  /\ disk_var' = IF has_disk THEN data["disk"] ELSE vmx_path
      /\ memory_var' = IF has_memsize /\ PyInt(data["memsize"]).ok
                       THEN StrOfInt(PyInt(data["memsize"]).val) ELSE memory_var
      /\ cpus_var' = IF has_numvcpus /\ PyInt(data["numvcpus"]).ok
                     THEN StrOfInt(PyInt(data["numvcpus"]).val) ELSE cpus_var
      /\ status_var' = IF has_disk \/ has_memsize \/ has_numvcpus
                       THEN "Loaded VMX (details)" ELSE "Loaded VMX configuration"

(* _choose_disk with the path the file dialog returned, empty when the    *)
(* dialog was cancelled                                                    *)
ChooseDisk(selected) ==
  IF selected = <<>>
  THEN UNCHANGED <<disk_var, memory_var, cpus_var, status_var>>
  ELSE IF Lower(Suffix(selected)) = VmxSuffix
  THEN ApplyVmxConfig(selected)
  ELSE /\ disk_var' = selected
       /\ status_var' = "Ready"
       /\ UNCHANGED <<memory_var, cpus_var>>

(***************************************************************************)
(* The descriptor lines tried.                                             *)
(***************************************************************************)
LineMemsize == <<"m","e","m","s","i","z","e"," ","="," ","\"","4","\"">>
LineMemsizeUpper == <<"M","e","m","S","i","z","e","=","8">>
LineMemsizeBad == <<"m","e","m","s","i","z","e","=","x">>
LineNumvcpus == <<" ","n","u","m","v","c","p","u","s"," ","="," ","\"","4","\"">>
LineDisk == <<"s",".","f","i","l","e","N","a","m","e"," ","="," ","\"","d",".","i","m","g","\"">>
LineDiskMissing == <<"s",".","f","i","l","e","N","a","m","e","=","n",".","i","m","g">>
LineDiskQcow == <<"t",".","f","i","l","e","N","a","m","e","=","/","d",".","q","c","o","w","2">>
LineDiskUpper == <<"u",".","f","i","l","e","N","a","m","e","=","d",".","I","M","G">>
LineDiskBin == <<"b",".","f","i","l","e","N","a","m","e","=","b",".","b","i","n">>
LineComment == <<"#","m","e","m","s","i","z","e","=","4">>
LineNoEquals == <<"n","u","m","v","c","p","u","s">>
LineOther == <<"n","a","m","e","=","v","m">>

Lines ==
  { LineMemsize, LineMemsizeUpper, LineNumvcpus, LineDisk, LineDiskMissing,
    LineDiskQcow, LineDiskUpper, LineDiskBin,
    LineComment, LineNoEquals, LineOther }

(* the sequences over S of length at most n *)
RECURSIVE SeqsUpTo(_, _)
SeqsUpTo(S, n) ==
  IF n = 0 THEN {<<>>}
  ELSE LET shorter == SeqsUpTo(S, n - 1)
       IN  shorter \cup {Append(q, x) : q \in shorter, x \in S}

(***************************************************************************)
(* The parser on its own: any descriptor of up to MaxLines lines.          *)
(***************************************************************************)
InitParse ==
  /\ InitFields /\ InitLifecycle /\ InitHistory
  /\ config = NoConfig
  /\ vmx_file \in {Unreadable} \cup {File(lines) : lines \in SeqsUpTo(Lines, MaxLines)}
  /\ can_interrupt = TRUE
  /\ vmx_data = NotParsed
  /\ InitLocator

Parse ==
  /\ vmx_data' = [done |-> TRUE, data |-> ParseVmxFile(VmxPath)]
  /\ UNCHANGED <<fields, lifecycle, dialog, config, vmx_file, host, history, results>>

SpecParse == InitParse /\ [][Parse]_vars

(***************************************************************************)
(* The form on its own: the user sets fields and loads descriptors.        *)
(***************************************************************************)
Str3 == <<"3">>
Descriptors ==
  { Unreadable,
    File(<<LineMemsize, LineNumvcpus, LineDisk>>),
    File(<<LineMemsizeBad, LineDiskMissing>>),
    File(<<LineOther>>) }

InitConfig ==
  /\ InitFields /\ InitLifecycle /\ InitHistory
  /\ config = NoConfig
  /\ vmx_file \in Descriptors
  /\ can_interrupt = TRUE
  /\ vmx_data = NotParsed
  /\ InitLocator

Set(field, value) ==
  /\ explicit' = [explicit EXCEPT ![field] = [set |-> TRUE, value |-> value]]
  /\ edited' = edited \cup {field}

(* the user types into the memory spinbox *)
TypeMemory ==
  \E v \in {Str3, StrX} :
    /\ memory_var' = v
    /\ Set("memory", v)
    /\ UNCHANGED <<binary_var, disk_var, cpus_var, cpu_model_var, machine_var, bios_var>>
    /\ UNCHANGED <<lifecycle, dialog, config, vmx_file, host, vmx_data, results>>

(* the user types into the vCPU spinbox *)
TypeCpus ==
  \E v \in {Str3, StrX} :
    /\ cpus_var' = v
    /\ Set("cpus", v)
    /\ UNCHANGED <<binary_var, disk_var, memory_var, cpu_model_var, machine_var, bios_var>>
    /\ UNCHANGED <<lifecycle, dialog, config, vmx_file, host, vmx_data, results>>

(* the user picks a disk image in the file dialog *)
PickDisk ==
  \E selected \in {DiskImg, DiskQcow, DiskMissing} :
    /\ ChooseDisk(selected)
    /\ Set("disk", selected)
    /\ UNCHANGED <<binary_var, cpu_model_var, machine_var, bios_var>>
    /\ UNCHANGED <<vm_process, stop_event, proc, signals, monitors, timers>>
    /\ UNCHANGED <<dialog, config, vmx_file, host, vmx_data, results>>

(* the user picks the descriptor in the file dialog *)
LoadVmx ==
  /\ ChooseDisk(VmxPath)
  /\ edited' = {}
  /\ UNCHANGED <<binary_var, cpu_model_var, machine_var, bios_var>>
  /\ UNCHANGED <<vm_process, stop_event, proc, signals, monitors, timers>>
  /\ UNCHANGED <<dialog, config, vmx_file, host, vmx_data, explicit, results>>

NextConfig == TypeMemory \/ TypeCpus \/ PickDisk \/ LoadVmx

SpecConfig == InitConfig /\ [][NextConfig]_vars

(***************************************************************************)
(* Validation on its own: _build_config on every combination of fields.    *)
(***************************************************************************)
Str0 == <<"0">>
Blank == <<" ">>
InitValidate ==
  /\ binary_var \in {BinBlank, BinBare, BinBareMissing, BinPath, BinPathMissing}
  /\ disk_var \in {<<>>, DiskImg, DiskMissing}
  /\ memory_var \in {Str2, Str0, StrX}
  /\ cpus_var \in {Str2, StrX}
  /\ cpu_model_var \in {DEFAULT_CPU_NAME, Blank}
  /\ machine_var \in {DEFAULT_MACHINE, <<>>, Blank}
  /\ bios_var \in {<<>>, BiosBin, BiosMissing}
  /\ InitLifecycle /\ InitRest

Validate ==
  /\ config' = BuildConfig.config
  /\ dialog' = BuildConfig.dialog
  /\ UNCHANGED <<fields, lifecycle, vmx_file, host, vmx_data, history, results>>

SpecValidate == InitValidate /\ [][Validate]_vars

(***************************************************************************)
(* A second specification of the lifecycle alone, with the scheduling the  *)
(* program runs under: the event loop runs a due timer, a started thread   *)
(* is scheduled, and a child sent a termination signal exits.              *)
(***************************************************************************)
Terminated == \E c \in Children : Contains(signals[c], "SIGTERM") /\ ChildExit(c) /\ UNCHANGED <<fields, rest>>

NextLive == Start \/ Stop \/ Exit \/ Bind \/ Report \/ Finalize

LiveSpec ==
  /\ Init
  /\ [][NextLive]_vars
  /\ WF_vars(Finalize) /\ WF_vars(Bind) /\ WF_vars(Report) /\ WF_vars(Terminated)

(***************************************************************************)
(* Properties of the lifecycle.                                            *)
(***************************************************************************)
HeldAlive == vm_process # None /\ proc[vm_process] = "alive"
Started == {t \in Children : monitors[t].pc # "none"}

(* C1: at most one child spawned by the manager is alive in any reachable  *)
(* state, and an alive child is the one whose handle is held: start spawns *)
(* only when no handle is held or the held child has exited.               *)
C1_AtMostOneAlive ==
  /\ Cardinality(Alive) <= 1
  /\ \A c \in Alive : vm_process = c

C1_Witness == proc[1] = "exited" /\ proc[2] = "alive"

(* C2: a start issued while the held child is alive is rejected as already *)
(* running and changes nothing: no process, no monitor, the handle, the    *)
(* stop event and the status as they were.                                 *)
C2_StartWhileRunningRejected ==
  [][(HeldAlive /\ Submit) =>
       /\ dialog'.title = "VM Running"
       /\ UNCHANGED <<vm_process, stop_event, status_var, proc, signals, monitors, timers>>]_vars

C2_Witness == HeldAlive /\ stop_event /\ dialog.title = "VM Running"

(* C3: a stop issued when no child is held or the held child has exited    *)
(* sends no signal, schedules no timer, leaves the handle and the stop     *)
(* event alone and reports "No VM running" without an error dialog.        *)
C3_StopNoop ==
  [][(~HeldAlive /\ Stop) =>
       /\ status_var' = "No VM running"
       /\ dialog' = NoDialog
       /\ UNCHANGED <<vm_process, stop_event, proc, signals, monitors, timers>>]_vars

C3_Witness ==
  /\ status_var = "No VM running"
  /\ vm_process # None
  /\ proc[vm_process] = "exited"

(* C4: after an accepted stop the interrupt is sent first and, the child   *)
(* not having exited after the grace period, a termination signal follows, *)
(* so that every accepted stop is eventually followed by the child's exit, *)
(* also when the child ignores the interrupt.                              *)
C4_StopReachesExited ==
  \A c \in Children : (signals[c] # <<>>) ~> (proc[c] = "exited")

(* C5: the status a monitor publishes for the child it waited on says      *)
(* "VM stopped" exactly when a stop was accepted for that child, and       *)
(* "VM exited" otherwise.                                                  *)
C5_ReportMatchesStop ==
  [][\A t \in Children :
       MonitorReport(t) =>
         ((status_var' = "VM stopped") <=> (signals[monitors[t].target] # <<>>))]_vars


(* the ways a form fails validation, as the claim lists them *)
NonNumeric(s) == \E i \in 1..Len(s) : \E k \in 1..26 : s[i] \in {Lowercase[k], Uppercase[k]}
BlankExecutableOf(f) == Strip(f.binary) = <<>>
MissingExecutableOf(f) == Contains(f.binary, "/") /\ Strip(f.binary) \notin ExistingFiles
NonNumericOf(f) == NonNumeric(f.memory) \/ NonNumeric(f.cpus)
MissingDiskOf(f) == f.disk # <<>> /\ f.disk \notin ExistingFiles
MissingFirmwareOf(f) == f.bios # <<>> /\ f.bios \notin ExistingFiles
InvalidForm(f) ==
  \/ BlankExecutableOf(f) \/ MissingExecutableOf(f)
  \/ NonNumericOf(f)
  \/ MissingDiskOf(f) \/ MissingFirmwareOf(f)
BlankExecutable == BlankExecutableOf(FieldValues)
MissingExecutable == MissingExecutableOf(FieldValues)
MissingDisk == MissingDiskOf(FieldValues)
MissingFirmware == MissingFirmwareOf(FieldValues)
FormInvalid == InvalidForm(FieldValues)
InvalidForms == {form \in Forms : InvalidForm(form)}
ValidForms == Forms \ InvalidForms

(* C6: a start whose spawn fails shows the failure, sets the status        *)
(* "Launch failed", creates no child and no monitor, keeps the handle and  *)
(* permits a later start; a start whose spawn succeeds sets "VM running",  *)
(* holds the new child and starts exactly one monitor.                     *)
C6_LaunchOutcome ==
  [][\A form \in ValidForms :
      (~HeldAlive /\ SubmitForm(form)) =>
       IF Spawned' = Spawned
       THEN /\ status_var' = "Launch failed"
            /\ dialog'.title = "Launch Failed"
            /\ UNCHANGED <<vm_process, stop_event, proc, monitors>>
            /\ ~StartRejected'
       ELSE /\ status_var' = "VM running"
            /\ Cardinality(Spawned' \ Spawned) = 1
            /\ Spawned' \ Spawned = {vm_process'}
            /\ proc'[vm_process'] = "alive"
            /\ Cardinality(Started' \ Started) = 1
            /\ \A t \in Started : monitors'[t] = monitors[t]]_vars

C6_Witness ==
  /\ status_var = "Launch failed"
  /\ dialog.title = "Launch Failed"
  /\ vm_process # None
  /\ proc[vm_process] = "exited"

(* C7: a start whose fields fail validation shows an error dialog, creates *)
(* no process and no monitor, and leaves the handle, the stop event and    *)
(* the status as they were.                                                *)
C7_InvalidStartNoEffect ==
  [][\A form \in InvalidForms :
      (~HeldAlive /\ SubmitForm(form)) =>
       /\ dialog'.title \in {"Invalid Configuration", "Invalid Disk", "Invalid BIOS"}
       /\ UNCHANGED <<vm_process, stop_event, status_var, proc, signals, monitors, timers>>]_vars

C7_Witness ==
  /\ dialog.message = "BEMU binary does not exist"
  /\ binary_var = BinPathMissing
  /\ vm_process = None
  /\ Spawned = {}

(***************************************************************************)
(* The firmware locator on its own: any setting of SEABIOS_DIR and any     *)
(* placement of firmware files.                                            *)
(***************************************************************************)
DEFAULT_BIOS_NAME == <<"b","i","o","s",".","b","i","n">>
PcBiosDir == <<"/","r","/","p","c","-","b","i","o","s">>
EnvDir == <<"/","e">>
HomeSeabiosDir == Home \o <<"/","s">>
UsrShareDir == <<"/","u">>
UsrLocalDir == <<"/","l">>
Cwd == <<".">>

(* Path(s): the empty string makes the path "." *)
PathOf(s) == IF s = <<>> THEN Cwd ELSE s
(* directory / name: joining onto "." gives the bare relative name *)
Join(directory, name) == IF directory = Cwd THEN name ELSE directory \o <<"/">> \o name
(* bool(directory): pathlib paths define neither __bool__ nor __len__, so  *)
(* every path is true                                                      *)
PathBool(directory) == TRUE
(* Path.is_file(), a relative path being looked up in the working directory *)
IsFile(path) == path \in bios_files

DEFAULT_BIOS_DIRS ==
  <<PcBiosDir, PathOf(environ), HomeSeabiosDir, UsrShareDir, UsrLocalDir>>

(* the loop of _find_default_bios over the directories left; <<>> is None *)
RECURSIVE FindBiosIn(_)
FindBiosIn(dirs) ==
  IF dirs = <<>> THEN <<>>
  ELSE LET directory == Head(dirs)
           candidate == Join(directory, DEFAULT_BIOS_NAME)
       IN  IF ~PathBool(directory) THEN FindBiosIn(Tail(dirs))
           ELSE IF IsFile(candidate) THEN candidate
           ELSE FindBiosIn(Tail(dirs))

FindDefaultBios == FindBiosIn(DEFAULT_BIOS_DIRS)

(* the tk variables as _create_widgets makes them *)
InitWidgets ==
  /\ binary_var = <<>>
  /\ disk_var = <<>>
  /\ memory_var = StrOfInt(DEFAULT_MEMORY)
  /\ cpus_var = StrOfInt(DEFAULT_CPU_COUNT)
  /\ cpu_model_var = DEFAULT_CPU_NAME
  /\ machine_var = DEFAULT_MACHINE
  /\ bios_var = <<>>

BiosPlaces ==
  {Join(d, DEFAULT_BIOS_NAME) :
     d \in {PcBiosDir, EnvDir, Cwd, HomeSeabiosDir, UsrShareDir, UsrLocalDir}}

InitBios ==
  /\ InitWidgets /\ InitLifecycle /\ InitHistory
  /\ config = NoConfig
  /\ vmx_file = Unreadable
  /\ vmx_data = NotParsed
  /\ can_interrupt = TRUE
  /\ environ \in {<<>>, EnvDir}
  /\ bios_files \in SUBSET BiosPlaces
  /\ default_bios = NotSearched
  /\ command = NoCommand

(* _populate_defaults, with neither BEMU_BINARY nor QEMU_BINARY set *)
PopulateDefaults ==
  LET bios_path == FindDefaultBios
  IN  /\ ~default_bios.done
      /\ binary_var' = BinBare
      /\ bios_var' = IF bios_path # <<>> THEN bios_path ELSE bios_var
      /\ cpu_model_var' = DEFAULT_CPU_NAME
      /\ default_bios' = [done |-> TRUE, path |-> bios_path]
      /\ UNCHANGED <<disk_var, memory_var, cpus_var, machine_var>>
      /\ UNCHANGED <<lifecycle, dialog, config, vmx_file, host, vmx_data, history, command>>

SpecBios == InitBios /\ [][PopulateDefaults]_vars

(***************************************************************************)
(* VMConfig.build_command on its own: any VMConfig.                        *)
(***************************************************************************)
OptMachine == <<"-","m","a","c","h","i","n","e">>
OptM == <<"-","m">>
OptSmp == <<"-","s","m","p">>
OptCpu == <<"-","c","p","u">>
OptBios == <<"-","b","i","o","s">>
OptDrive == <<"-","d","r","i","v","e">>
OptHda == <<"-","h","d","a">>
SuffixQcow2 == <<".","q","c","o","w","2">>
DriveFile == <<"f","i","l","e","=">>
DriveVirtio ==
  <<",","i","f","=","v","i","r","t","i","o",",","f","o","r","m","a","t","=","q","c","o","w","2">>

(* build_command with the disk attached before the firmware is named *)
M_BuildCommand(c) ==
  <<c.binary, OptMachine, c.machine, OptM, StrOfInt(c.memory_mb),
    OptSmp, StrOfInt(c.cpu_count), OptCpu, c.cpu_model>>
  \o (IF c.disk_image # <<>>
      THEN IF Suffix(c.disk_image) = SuffixQcow2
           THEN <<OptDrive, DriveFile \o c.disk_image \o DriveVirtio>>
           ELSE <<OptHda, c.disk_image>>
      ELSE <<>>)
  \o (IF c.bios # <<>> THEN <<OptBios, c.bios>> ELSE <<>>)

(* VMConfig.build_command; an absent bios or disk_image (None) is <<>> *)
BuildCommand(c) ==
  <<c.binary, OptMachine, c.machine, OptM, StrOfInt(c.memory_mb),
    OptSmp, StrOfInt(c.cpu_count), OptCpu, c.cpu_model>>
  \o (IF c.bios # <<>> THEN <<OptBios, c.bios>> ELSE <<>>)
  \o (IF c.disk_image # <<>>
      THEN IF Suffix(c.disk_image) = SuffixQcow2
           THEN <<OptDrive, DriveFile \o c.disk_image \o DriveVirtio>>
           ELSE <<OptHda, c.disk_image>>
      ELSE <<>>)

DiskVmdk == <<"/","d",".","v","m","d","k">>
MachinePc == <<"p","c">>
VMConfigs ==
  [binary : {BinBare, BinPath},
   disk_image : {<<>>, DiskImg, DiskQcow, DiskVmdk, VmxPath},
   memory_mb : {DEFAULT_MEMORY, 0, -1},
   cpu_count : {DEFAULT_CPU_COUNT, 1},
   cpu_model : {DEFAULT_CPU_NAME},
   bios : {<<>>, BiosBin},
   machine : {DEFAULT_MACHINE, MachinePc}]

InitCommand ==
  /\ InitFields /\ InitLifecycle /\ InitHistory
  /\ config \in VMConfigs
  /\ vmx_file = Unreadable
  /\ vmx_data = NotParsed
  /\ can_interrupt = TRUE
  /\ InitLocator

(* config.build_command() *)
Build ==
  /\ command' = BuildCommand(config)
  /\ UNCHANGED <<fields, lifecycle, dialog, config, vmx_file, host, vmx_data, history, default_bios>>

SpecCommand == InitCommand /\ [][Build]_vars

(***************************************************************************)
(* The disk field and a start together: the user picks disks, loads        *)
(* descriptors and presses Start VM.                                       *)
(***************************************************************************)
(* start_vm, with the VMConfig and the command it makes on the way kept    *)
Launch ==
  /\ StartVm
  /\ config' = IF StartRejected THEN config ELSE BuildConfig.config
  /\ command' = IF ~StartRejected /\ BuildConfig.ok
                THEN BuildCommand(BuildConfig.config) ELSE command
  /\ UNCHANGED <<fields, vmx_file, host, vmx_data, history, default_bios>>

NextLoad == PickDisk \/ LoadVmx \/ Launch

SpecLoad == InitConfig /\ [][NextLoad]_vars

(***************************************************************************)
(* Properties of validation.                                               *)
(***************************************************************************)
Violated(rule) ==
  CASE rule = "executable" -> BlankExecutable \/ MissingExecutable
    [] rule = "numbers" -> NonNumeric(memory_var) \/ NonNumeric(cpus_var)
    [] rule = "disk" -> MissingDisk
    [] rule = "firmware" -> MissingFirmware

(* the rule a dialog of _build_config reports *)
RuleOf(d) ==
  CASE d.title = "Invalid Disk" -> "disk"
    [] d.title = "Invalid BIOS" -> "firmware"
    [] d.message = "Memory and CPU counts must be integers" -> "numbers"
    [] OTHER -> "executable"

(* the first rule of the order that the fields violate, "" when none *)
FirstViolated(order) ==
  IF \E i \in 1..Len(order) : Violated(order[i])
  THEN order[CHOOSE i \in 1..Len(order) :
               Violated(order[i]) /\ \A j \in 1..(i - 1) : ~Violated(order[j])]
  ELSE ""

Reported == IF dialog = NoDialog THEN "" ELSE RuleOf(dialog)
Validated == dialog # NoDialog \/ config # NoConfig

(* C8, as stated: the failure reported is that of the first violated rule  *)
(* in the order executable, numbers, disk, firmware.                       *)
C8_StatedOrder ==
  Validated => Reported = FirstViolated(<<"executable", "numbers", "disk", "firmware">>)

(* C8, amended: the failure reported is that of the first violated rule in *)
(* the order numbers, executable, disk, firmware, and a configuration is   *)
(* built exactly when no rule is violated.                                 *)
C8_CodeOrder ==
  Validated =>
    /\ Reported = FirstViolated(<<"numbers", "executable", "disk", "firmware">>)
    /\ (config # NoConfig) <=> ~FormInvalid

C8_Witness ==
  /\ Validated
  /\ BlankExecutable /\ NonNumeric(memory_var)
  /\ Reported = "numbers"

(***************************************************************************)
(* Properties of descriptor loading.                                       *)
(***************************************************************************)
FieldValue(f) ==
  CASE f = "memory" -> memory_var
    [] f = "cpus" -> cpus_var
    [] f = "disk" -> disk_var

(* C9, as stated: a field the user has set keeps the user's value through  *)
(* every later descriptor load.                                            *)
C9_ExplicitWins ==
  \A f \in FieldNames : explicit[f].set => FieldValue(f) = explicit[f].value

(* what the descriptor on disk supplies for a field, if anything *)
Supplies(f) ==
  LET data == ParseVmxFile(VmxPath)
      key == CASE f = "memory" -> "memsize" [] f = "cpus" -> "numvcpus" [] f = "disk" -> "disk"
  IN  IF f = "disk"
      THEN [some |-> TRUE, value |-> IF key \in DOMAIN data THEN data[key] ELSE VmxPath]
      ELSE IF key \in DOMAIN data /\ PyInt(data[key]).ok
      THEN [some |-> TRUE, value |-> StrOfInt(PyInt(data[key]).val)]
      ELSE [some |-> FALSE, value |-> <<>>]

(* C9, amended: each field holds the value written to it last.  A          *)
(* descriptor load overwrites the disk always and memory and vCPUs when it *)
(* supplies an integer for them, whatever the user had set; a value the    *)
(* user sets after the load stands until the next load.                    *)
C9_LastWriteWins ==
  /\ [](\A f \in edited : FieldValue(f) = explicit[f].value)
  /\ [][LoadVmx =>
          \A f \in FieldNames :
            FieldValue(f)' = IF Supplies(f).some THEN Supplies(f).value ELSE FieldValue(f)]_vars

C9_Witness ==
  /\ explicit["memory"].set /\ "memory" \notin edited
  /\ memory_var # explicit["memory"].value
  /\ explicit["disk"].set /\ disk_var # explicit["disk"].value

(***************************************************************************)
(* Properties of the parser.                                               *)
(***************************************************************************)
(* a line of the file that sets the key, compared without case *)
HasKey(line, key) ==
  LET t == Strip(line)
  IN  /\ t # <<>> /\ Head(t) # "#"
      /\ Contains(t, "=")
      /\ Lower(Strip(SubSeq(t, 1, IndexOf(t, "=") - 1))) = key
Present(key) == \E i \in 1..Len(vmx_file.lines) : HasKey(vmx_file.lines[i], key)

(* C10: the parsed descriptor holds memsize and numvcpus exactly when the  *)
(* file has a line with that key, wherever the disk line stands.           *)
C10_KeysPresent ==
  (vmx_data.done /\ vmx_file.readable) =>
    /\ ("memsize" \in DOMAIN vmx_data.data) <=> Present(KeyMemsize)
    /\ ("numvcpus" \in DOMAIN vmx_data.data) <=> Present(KeyNumvcpus)

(* the key and the value of a line that has them *)
KeyOf(line) == LET t == Strip(line) IN Strip(SubSeq(t, 1, IndexOf(t, "=") - 1))
ValueOf(line) ==
  LET t == Strip(line) IN StripQuote(Strip(SubSeq(t, IndexOf(t, "=") + 1, Len(t))))
(* the path a file-reference value names, relative values taken from the   *)
(* descriptor's directory                                                  *)
Referenced(line) ==
  IF IsAbsolute(ValueOf(line)) THEN ValueOf(line) ELSE Resolve(VmxPath, ValueOf(line))
(* a line that refers to a usable disk: a file reference whose extension   *)
(* is allowed and whose file exists                                        *)
DiskLineMatches(line) ==
  LET t == Strip(line)
  IN  /\ t # <<>> /\ Head(t) # "#" /\ Contains(t, "=")
      /\ EndsWith(KeyOf(line), FileNameSuffix)
      /\ ValueOf(line) # <<>>
      /\ Lower(Suffix(Referenced(line))) \in DiskSuffixes
      /\ Referenced(line) \in ExistingFiles
Matching == {i \in 1..Len(vmx_file.lines) : DiskLineMatches(vmx_file.lines[i])}
FirstMatching == CHOOSE i \in Matching : \A j \in Matching : i <= j

(* C11: the parsed descriptor's disk is the file referenced by the first   *)
(* line, in file order, that is a file reference with an allowed extension *)
(* and an existing file; lines before it that fail a test are skipped,     *)
(* lines after it never replace it, and there is no disk key when no line  *)
(* matches.                                                                *)
C11_FirstMatchWins ==
  (vmx_data.done /\ vmx_file.readable) =>
    IF Matching = {}
    THEN "disk" \notin DOMAIN vmx_data.data
    ELSE /\ "disk" \in DOMAIN vmx_data.data
         /\ vmx_data.data["disk"] = Referenced(vmx_file.lines[FirstMatching])

C11_Witness ==
  /\ vmx_data.done
  /\ vmx_file.lines = <<LineDiskBin, LineDiskUpper, LineDiskQcow>>
  /\ vmx_data.data["disk"] = DiskUpper

(***************************************************************************)
(* Properties of the firmware locator.                                     *)
(***************************************************************************)
(* the candidate directories in their order, an unset or empty SEABIOS_DIR *)
(* left out                                                                *)
Configured ==
  <<PcBiosDir>> \o (IF environ # <<>> THEN <<environ>> ELSE <<>>)
    \o <<HomeSeabiosDir, UsrShareDir, UsrLocalDir>>
Holding == {i \in 1..Len(Configured) : Join(Configured[i], DEFAULT_BIOS_NAME) \in bios_files}
FirstHolding == CHOOSE i \in Holding : \A j \in Holding : i <= j

(* C12: the locator returns the firmware of the first candidate directory, *)
(* in the fixed order, that holds the firmware file, and none when no      *)
(* candidate does; an unset or empty SEABIOS_DIR is skipped and no other   *)
(* directory, such as the working directory, is searched in its place.     *)
C12_FirstCandidate ==
  default_bios.done =>
    default_bios.path = IF Holding = {} THEN <<>>
                        ELSE Join(Configured[FirstHolding], DEFAULT_BIOS_NAME)

(***************************************************************************)
(* Properties of the command builder.                                      *)
(***************************************************************************)
Args == {command[i] : i \in 1..Len(command)}
(* the arguments after the nine fixed ones *)
Optional == SubSeq(command, 10, Len(command))
HasBios == config.bios # <<>>
HasDisk == config.disk_image # <<>>
IsQcow2 == Suffix(config.disk_image) = SuffixQcow2

(* C13: a built command is the executable, then the machine, memory, vCPU  *)
(* and CPU model options in that order, then the firmware option only if a *)
(* firmware is present, then one disk attachment only if a disk is         *)
(* present: the virtio drive naming qcow2 for a .qcow2 image, -hda for any *)
(* other; an absent optional field adds nothing; and a build leaves the    *)
(* VMConfig as it was and repeats the list it gave before.                 *)
C13_CommandShape ==
  /\ [](command # NoCommand =>
         /\ SubSeq(command, 1, 9) =
              <<config.binary, OptMachine, config.machine, OptM, StrOfInt(config.memory_mb),
                OptSmp, StrOfInt(config.cpu_count), OptCpu, config.cpu_model>>
         /\ Len(Optional) = (IF HasBios THEN 2 ELSE 0) + (IF HasDisk THEN 2 ELSE 0)
         /\ HasBios => SubSeq(Optional, 1, 2) = <<OptBios, config.bios>>
         /\ HasDisk =>
              SubSeq(command, Len(command) - 1, Len(command)) =
                IF IsQcow2
                THEN <<OptDrive, DriveFile \o config.disk_image \o DriveVirtio>>
                ELSE <<OptHda, config.disk_image>>
         /\ ~HasBios => OptBios \notin Args
         /\ ~HasDisk => OptDrive \notin Args /\ OptHda \notin Args)
  /\ [][Build => /\ config' = config
                  /\ command # NoCommand => command' = command]_vars

C13_Witness ==
  /\ command # NoCommand
  /\ HasBios /\ HasDisk /\ IsQcow2
  /\ Len(command) = 13

(***************************************************************************)
(* Properties of the configurations validation produces.                   *)
(***************************************************************************)
(* C14: every VMConfig validation produces has a positive memory size and  *)
(* a positive vCPU count; a zero or negative field yields no VMConfig.     *)
C14_PositiveSizes ==
  config # NoConfig => config.memory_mb > 0 /\ config.cpu_count > 0

(* C15: in every VMConfig validation produces the CPU model and the        *)
(* machine type are not blank: a field that is empty or all whitespace is  *)
(* replaced by its default.                                                *)
C15_DefaultsWhenBlank ==
  config # NoConfig =>
    /\ Strip(config.cpu_model) # <<>>
    /\ Strip(config.machine) # <<>>
    /\ Strip(cpu_model_var) = <<>> => config.cpu_model = DEFAULT_CPU_NAME
    /\ Strip(machine_var) = <<>> => config.machine = DEFAULT_MACHINE

(***************************************************************************)
(* Properties of the threads and timers of the lifecycle.                  *)
(***************************************************************************)
ExitStatuses == {"VM exited", "VM stopped"}
PublishesExit == status_var' \in ExitStatuses /\ status_var' # status_var
PublishesRunning == status_var' = "VM running" /\ status_var' # status_var

(* C16: only a monitor thread publishes an exit status ("VM exited" or     *)
(* "VM stopped"), never a foreground handler or its timer, and only the    *)
(* foreground start publishes "VM running".                                *)
C16_SingleWriter ==
  [][/\ PublishesExit => Report
     /\ PublishesRunning => Submit]_vars

(* a monitor thread that watches child c: it waits on c, or it was started *)
(* with c and has not yet picked the child it waits on                     *)
Watches(t, c) ==
  \/ monitors[t].pc = "waiting" /\ monitors[t].target = c
  \/ monitors[t].pc = "entry" /\ t = c

(* C17: every alive child is watched by exactly one monitor thread, and    *)
(* every monitor thread waits on the child whose start created it.         *)
C17_OneWatcher ==
  /\ \A c \in Alive : Cardinality({t \in Children : Watches(t, c)}) = 1
  /\ \A t \in Children : monitors[t].pc = "waiting" => monitors[t].target = t

(* C18: a stop issued while an earlier stop of the same child is still in  *)
(* progress sends no further signal and schedules no further timer: each   *)
(* child is sent at most one signal and at most one finalize timer is      *)
(* pending.                                                                *)
C18_OneStopPerChild ==
  /\ \A c \in Children : Len(signals[c]) <= 1
  /\ timers <= 1

(* C19: while a child is alive and no stop was accepted for it, the        *)
(* published status is neither "VM exited" nor "VM stopped".               *)
C19_NoStaleExitStatus ==
  \A c \in Alive : signals[c] = <<>> => status_var \notin ExitStatuses

(***************************************************************************)
(* Properties of a descriptor load followed by a start.                    *)
(***************************************************************************)
(* the disk a load of the descriptor puts into the disk field *)
LoadedDisk ==
  IF vmx_file.readable /\ Matching # {}
  THEN Referenced(vmx_file.lines[FirstMatching])
  ELSE VmxPath
LastTwo(cmd) == SubSeq(cmd, Len(cmd) - 1, Len(cmd))

(* C20: a descriptor load always replaces the disk field, with the disk    *)
(* the descriptor refers to when it has a usable reference and with the    *)
(* descriptor's own path otherwise; it replaces the memory and vCPU fields *)
(* by the descriptor's values that parse as integers and leaves them       *)
(* otherwise; and a start that spawns a child while the disk field holds   *)
(* the descriptor's path attaches the descriptor with -hda.                *)
C20_LoadThenStart ==
  /\ [][LoadVmx =>
          /\ disk_var' = LoadedDisk
          /\ memory_var' = IF Supplies("memory").some
                           THEN Supplies("memory").value ELSE memory_var
          /\ cpus_var' = IF Supplies("cpus").some
                         THEN Supplies("cpus").value ELSE cpus_var]_vars
  /\ [][(disk_var = VmxPath /\ Launch /\ Spawned' # Spawned) =>
          /\ config'.disk_image = VmxPath
          /\ LastTwo(command') = <<OptHda, VmxPath>>]_vars

C20_Witness ==
  /\ vmx_file = File(<<LineMemsizeBad, LineDiskMissing>>)
  /\ explicit["disk"].set
  /\ disk_var = VmxPath
  /\ memory_var = StrOfInt(DEFAULT_MEMORY)
  /\ proc[1] = "alive"
  /\ LastTwo(command) = <<OptHda, VmxPath>>

====
